---- MODULE Spec2Model ----
(***************************************************************************)
(* Model of the analytics-data serverless function                         *)
(* (netlify/functions/analytics-data.js): the request handler with its     *)
(* six upstream fetches, and the aggregators it applies to their results.  *)
(*                                                                         *)
(* Conventions.                                                            *)
(*  - A JavaScript string is a sequence of one-character strings, so that  *)
(*    includes(), the hashtag pattern and the array-index test of property *)
(*    keys are computed on characters.                                     *)
(*  - A missing optional string field is the empty sequence: every place   *)
(*    the code reads such a field treats undefined and "" alike.           *)
(*  - A point in time is a number of clock ticks since 1970-01-01 00:00,   *)
(*    TicksPerDay ticks to the day; the runtime's time zone is UTC.        *)
(*  - The runtime's default locale is en-US (month/day/year).              *)
(***************************************************************************)
EXTENDS Integers, Sequences, FiniteSets, TLC

VARIABLES
  pc,          \* where the handler is: idle, calling, awaiting, done
               \* (apply, applied when an aggregator is run on its own)
  event,       \* the request: httpMethod, headers.authorization, timeRange
  now,         \* the reading of the clock the aggregators take (new Date())
  tick,        \* how far the clock has moved on at the second reading of
               \* calculateConnectionsGrowth (0: the same instant)
  fetch,       \* per resource: idle, requested, settled
  fetchCount,  \* per resource: the number of upstream calls issued
  data,        \* per resource: what fetchLinkedInData returned
  analytics,   \* the analytics object, Null until it is built
  response,    \* the response of the handler
  query,       \* the state of the dashboard-data query in the browser
  view         \* the view the Dashboard component has rendered

vars == <<pc, event, now, tick, fetch, fetchCount, data, analytics, response, query, view>>

----------------------------------------------------------------------------
(* Bounds of the model *)

\* resolution of the clock: ticks per calendar day
TicksPerDay == 2
\* longest changelog drawn for the day-bucket aggregators
MaxTrendElems == 2
\* longest changelog drawn for the post-type classifier
MaxPostElems == 2
\* longest changelog drawn for the engagement joiner
MaxEngElems == 3
\* most copies of one kind of row in a connections snapshot
MaxCopies == 3
\* longest tail of rows / events appended to a ranking input
MaxRankElems == 2

----------------------------------------------------------------------------
(* JavaScript values *)

Null == [kind |-> "null"]

\* x || y on strings: the empty string is falsy
OrElse(x, y) == IF x = <<>> THEN y ELSE x

s_http == <<"h", "t", "t", "p">>
s_VIDEO == <<"V", "I", "D", "E", "O">>
s_IMAGE == <<"I", "M", "A", "G", "E">>
s_Unknown == <<"U", "n", "k", "n", "o", "w", "n">>
s_PostContent == <<"P", "o", "s", "t", " ", "c", "o", "n", "t", "e", "n", "t">>
s_Ellipsis == <<".", ".", ".">>

\* String.prototype.includes
Includes(s, sub) ==
  \E i \in 0..(Len(s) - Len(sub)) : SubSeq(s, i + 1, i + Len(sub)) = sub

Digits == {"0", "1", "2", "3", "4", "5", "6", "7", "8", "9"}
\* \w of a regular expression (the letters the model's texts use)
WordChars == Digits \cup {"a", "b", "c", "h", "t", "p", "_"}

----------------------------------------------------------------------------
(* Dates: Date, setDate, toLocaleDateString *)

\* calendar date of a day number (days since 1970-01-01), proleptic Gregorian
CivilFromDays(z0) ==
  LET z == z0 + 719468
      era == z \div 146097
      doe == z - era * 146097
      yoe == (doe - doe \div 1460 + doe \div 36524 - doe \div 146096) \div 365
      doy == doe - (365 * yoe + yoe \div 4 - yoe \div 100)
      mp == (5 * doy + 2) \div 153
      d == doy - (153 * mp + 2) \div 5 + 1
      m == IF mp < 10 THEN mp + 3 ELSE mp - 9
      y == yoe + era * 400 + (IF m <= 2 THEN 1 ELSE 0)
  IN [year |-> y, month |-> m, day |-> d]

\* day number of a calendar date
DaysFromCivil(y0, m, d) ==
  LET y == IF m <= 2 THEN y0 - 1 ELSE y0
      era == y \div 400
      yoe == y - era * 400
      doy == (153 * (IF m > 2 THEN m - 3 ELSE m + 9) + 2) \div 5 + d - 1
      doe == yoe * 365 + yoe \div 4 - yoe \div 100 + doy
  IN era * 146097 + doe - 719468

\* the calendar day a timestamp falls on
DayOf(ts) == ts \div TicksPerDay

\* date.setDate(date.getDate() + n): n days later, same time of day
AddDays(ts, n) == ts + n * TicksPerDay

\* toLocaleDateString('en-US', {month: 'short', day: 'numeric'}): "Nov 6"
ShortLabel(ts) ==
  LET c == CivilFromDays(DayOf(ts)) IN <<c.month, c.day>>

\* toLocaleDateString(): "11/6/2026"
LocaleDateString(ts) ==
  LET c == CivilFromDays(DayOf(ts)) IN <<c.month, c.day, c.year>>

\* new Date("11/6/2026"): local midnight of that date
ParseLocaleDate(s) == DaysFromCivil(s[3], s[1], s[2]) * TicksPerDay

----------------------------------------------------------------------------
(* Changelog events and snapshot rows *)

\* a field that is absent from an object
Undefined == "\\undefined"

\* a test for presence only: the empty string passes
Defined(x) == x # Undefined
\* JavaScript truthiness of an identifier-valued field
Truthy(x) == x # Undefined /\ x # ""

\* an ActivityEvent of the changelog.  mediaTypes is the list of the
\* mediaType fields of ShareContent.media (<<>>: no media; an element <<>>:
\* a media item without mediaType); text is shareCommentary.text; object is
\* activity.object.
Element(rn, m, at, rid, obj, mts, txt, act, own) ==
  [resourceName |-> rn, method |-> m, capturedAt |-> at, resourceId |-> rid,
   object |-> obj, mediaTypes |-> mts, text |-> txt, actor |-> act, owner |-> own]

\* a response body with an elements array
Json(elems) == [kind |-> "json", array |-> TRUE, elements |-> elems]
\* a snapshot response: one element holding the rows
SnapshotJson(rows) ==
  [kind |-> "json", array |-> TRUE, elements |-> << [snapshotData |-> rows] >>]
\* a response body whose collection (elements, or snapshotData) is a truthy
\* value that is not an array
Malformed == [kind |-> "json", array |-> FALSE, elements |-> <<>>]

\* changelogData?.elements || []
ElementsOf(changelogData) ==
  IF changelogData = Null THEN <<>> ELSE changelogData.elements

\* connectionsData?.elements?.[0]?.snapshotData || []
SnapshotOf(snapshot) ==
  IF snapshot = Null THEN <<>>
  ELSE IF Len(snapshot.elements) = 0 THEN <<>>
  ELSE snapshot.elements[1].snapshotData

\* reading the collection without optional chaining: null raises too
CollectionThrowsOnNull(body) == body = Null \/ ~body.array
\* whether iterating the collection of a fetched body raises a TypeError:
\* optional chaining and "|| []" turn null into the empty list, and a
\* collection that is not an array has no forEach / filter
CollectionThrows(body) == body # Null /\ ~body.array

\* Array.prototype.filter
Filter(s, Keep(_)) == SelectSeq(s, Keep)

\* Array.prototype.find as an index: the first match, 0 when there is none
FindIndex(s, Test(_)) ==
  IF \E k \in 1..Len(s) : Test(s[k])
  THEN CHOOSE k \in 1..Len(s) : Test(s[k]) /\ \A j \in 1..(k - 1) : ~Test(s[j])
  ELSE 0

IsCreate(e, rn) == e.resourceName = rn /\ e.method = "CREATE"

----------------------------------------------------------------------------
(* calculatePostsEngagementsTrend *)

\* a selector that falls back to 30 days for a value it does not know
RangeDaysDefault30(timeRange) ==
  IF timeRange = "7d" THEN 7 ELSE IF timeRange = "90d" THEN 90 ELSE 30

\* timeRange === "7d" ? 7 : timeRange === "30d" ? 30 : 90
RangeDays(timeRange) ==
  IF timeRange = "7d" THEN 7 ELSE IF timeRange = "30d" THEN 30 ELSE 90

\* the buckets of a loop that runs from i = days down to 1
TrendDateRangeFromYesterday(days, clk) ==
  [k \in 1..days |->
     [date |-> ShortLabel(AddDays(clk, -(days - k + 1))),
      posts |-> 0, likes |-> 0, comments |-> 0, shares |-> 0]]
\* the zero-filled buckets, pushed for i = days - 1 down to 0
TrendDateRange(days, clk) ==
  [k \in 1..days |->
     [date |-> ShortLabel(AddDays(clk, -(days - k))),
      posts |-> 0, likes |-> 0, comments |-> 0, shares |-> 0]]

\* one step of elements.forEach: the bucket found by label gets one count
TrendCount(dateRange, element) ==
  LET elementDate == ShortLabel(element.capturedAt)
      k == FindIndex(dateRange, LAMBDA day : day.date = elementDate)
  IN IF k = 0 THEN dateRange
     ELSE IF IsCreate(element, "ugcPosts")
       THEN [dateRange EXCEPT ![k].posts = @ + 1]
     ELSE IF IsCreate(element, "socialActions/likes")
       THEN [dateRange EXCEPT ![k].likes = @ + 1]
     ELSE IF IsCreate(element, "socialActions/comments")
       THEN [dateRange EXCEPT ![k].comments = @ + 1]
     ELSE IF IsCreate(element, "socialActions/shares")
       THEN [dateRange EXCEPT ![k].shares = @ + 1]
     ELSE dateRange

RECURSIVE TrendForEach(_, _)
TrendForEach(dateRange, elements) ==
  IF elements = <<>> THEN dateRange
  ELSE TrendForEach(TrendCount(dateRange, Head(elements)), Tail(elements))

RECURSIVE TrendMap(_)
\* dateRange.map(day => ({date, posts, likes, comments, totalEngagement}))
TrendMap(dateRange) ==
  IF dateRange = <<>> THEN <<>>
  ELSE LET day == Head(dateRange)
       IN << [date |-> day.date,
              posts |-> day.posts,
              likes |-> day.likes,
              comments |-> day.comments,
              totalEngagement |-> day.likes + day.comments + day.shares] >>
          \o TrendMap(Tail(dateRange))

calculatePostsEngagementsTrend(changelogData, timeRange, clk) ==
  LET elements == ElementsOf(changelogData)
      days == RangeDays(timeRange)
  IN TrendMap(TrendForEach(TrendDateRange(days, clk), elements))

----------------------------------------------------------------------------
(* calculateMessagesSentReceived *)

\* 30 in "30 * 24 * 60 * 60 * 1000" and 29 + 1 in "for (let i = 29; ...)"
MessageDays == 30

\* elements.find(e => e.owner)?.owner
CurrentUserId(elements) ==
  LET k == FindIndex(elements, LAMBDA e : Truthy(e.owner))
  IN IF k = 0 THEN Undefined ELSE elements[k].owner

\* the zero-filled buckets, pushed for i = 29 down to 0
MessagesDateRange(clk) ==
  [k \in 1..MessageDays |->
     [date |-> LocaleDateString(AddDays(clk, -(MessageDays - k))),
      sent |-> 0, received |-> 0]]

MessageCount(dateRange, message, currentUserId) ==
  LET messageDate == LocaleDateString(message.capturedAt)
      k == FindIndex(dateRange, LAMBDA day : day.date = messageDate)
  IN IF k = 0 THEN dateRange
     ELSE IF message.actor = currentUserId
       THEN [dateRange EXCEPT ![k].sent = @ + 1]
     ELSE [dateRange EXCEPT ![k].received = @ + 1]

RECURSIVE MessagesForEach(_, _, _)
MessagesForEach(dateRange, messages, currentUserId) ==
  IF messages = <<>> THEN dateRange
  ELSE MessagesForEach(MessageCount(dateRange, Head(messages), currentUserId),
                       Tail(messages), currentUserId)

RECURSIVE MessagesMap(_)
\* dateRange.map(day => ({date: new Date(day.date).toLocaleDateString(...), ...}))
MessagesMap(dateRange) ==
  IF dateRange = <<>> THEN <<>>
  ELSE LET day == Head(dateRange)
       IN << [date |-> ShortLabel(ParseLocaleDate(day.date)),
              sent |-> day.sent,
              received |-> day.received] >>
          \o MessagesMap(Tail(dateRange))

calculateMessagesSentReceived(changelogData, clk) ==
  LET elements == ElementsOf(changelogData)
      currentUserId == CurrentUserId(elements)
      last30Days == clk - MessageDays * TicksPerDay
      messages == Filter(elements,
                    LAMBDA e : e.resourceName = "messages" /\ e.capturedAt >= last30Days)
  IN MessagesMap(MessagesForEach(MessagesDateRange(clk), messages, currentUserId))

----------------------------------------------------------------------------
(* Array.prototype.sort: stable, by a comparator *)

\* x inserted behind the last element that does not compare greater than it
SortInsert(sorted, x, Cmp(_, _)) ==
  LET keep == IF \E j \in 1..Len(sorted) : Cmp(sorted[j], x) <= 0
              THEN CHOOSE j \in 1..Len(sorted) :
                     /\ Cmp(sorted[j], x) <= 0
                     /\ \A i \in (j + 1)..Len(sorted) : Cmp(sorted[i], x) > 0
              ELSE 0
  IN SubSeq(sorted, 1, keep) \o <<x>> \o SubSeq(sorted, keep + 1, Len(sorted))

Sort(s, Cmp(_, _)) ==
  LET sorted[i \in 0..Len(s)] ==
        IF i = 0 THEN <<>> ELSE SortInsert(sorted[i - 1], s[i], Cmp)
  IN sorted[Len(s)]

\* Array.prototype.slice(0, n)
Slice(s, n) == SubSeq(s, 1, IF Len(s) < n THEN Len(s) ELSE n)

----------------------------------------------------------------------------
(* Plain objects used as dictionaries: property order *)

\* an object is the sequence of its own properties in creation order
DigitVal(c) ==
  CASE c = "0" -> 0 [] c = "1" -> 1 [] c = "2" -> 2 [] c = "3" -> 3
    [] c = "4" -> 4 [] c = "5" -> 5 [] c = "6" -> 6 [] c = "7" -> 7
    [] c = "8" -> 8 [] c = "9" -> 9 [] OTHER -> 0

RECURSIVE DigitsLess(_, _)
\* a < b for two digit strings of the same length
DigitsLess(a, b) ==
  IF a = <<>> THEN FALSE
  ELSE IF DigitVal(Head(a)) # DigitVal(Head(b))
    THEN DigitVal(Head(a)) < DigitVal(Head(b))
  ELSE DigitsLess(Tail(a), Tail(b))

\* a < b for two canonical numeric strings
NumericLess(a, b) ==
  Len(a) < Len(b) \/ (Len(a) = Len(b) /\ DigitsLess(a, b))

\* 2^32 - 2, the largest array index
s_MaxIndex == <<"4", "2", "9", "4", "9", "6", "7", "2", "9", "4">>

\* a property key that is an array index: a canonical numeric string that
\* denotes an integer in 0 .. 2^32 - 2
IsArrayIndex(key) ==
  /\ Len(key) > 0
  /\ \A i \in 1..Len(key) : key[i] \in Digits
  /\ (Len(key) > 1 => key[1] # "0")
  /\ ~NumericLess(s_MaxIndex, key)

ObjHas(obj, key) == \E i \in 1..Len(obj) : obj[i].key = key

ObjGet(obj, key) ==
  obj[CHOOSE i \in 1..Len(obj) : obj[i].key = key].value

\* obj[key] = value: a new property is created last, an old one keeps its place
ObjSet(obj, key, value) ==
  IF ObjHas(obj, key)
  THEN [i \in 1..Len(obj) |->
          IF obj[i].key = key THEN [key |-> key, value |-> value] ELSE obj[i]]
  ELSE Append(obj, [key |-> key, value |-> value])

\* Object.entries / Object.values order (OrdinaryOwnPropertyKeys): the
\* array-index keys in ascending numeric order, then the other string keys
\* in creation order
ObjectEntries(obj) ==
  Sort(SelectSeq(obj, LAMBDA p : IsArrayIndex(p.key)),
       LAMBDA p, q : IF NumericLess(p.key, q.key) THEN -1
                     ELSE IF NumericLess(q.key, p.key) THEN 1 ELSE 0)
  \o SelectSeq(obj, LAMBDA p : ~IsArrayIndex(p.key))

\* counts[key] = (counts[key] || 0) + 1
ObjIncrement(counts, key) ==
  ObjSet(counts, key, (IF ObjHas(counts, key) THEN ObjGet(counts, key) ELSE 0) + 1)

RECURSIVE CountKeys(_, _)
\* keys.forEach(key => counts[key] = (counts[key] || 0) + 1)
CountKeys(counts, keys) ==
  IF keys = <<>> THEN counts
  ELSE CountKeys(ObjIncrement(counts, Head(keys)), Tail(keys))

\* the length of every top-N list: slice(0, 10)
TopN == 10

\* Object.entries(counts).sort(([, a], [, b]) => b - a).slice(0, 10)
TopEntries(counts) ==
  Slice(Sort(ObjectEntries(counts), LAMBDA p, q : q.value - p.value), TopN)

----------------------------------------------------------------------------
(* calculateConnectionsGrowth *)

\* a row of the CONNECTIONS snapshot.  A connect date is the text of a
\* calendar date, <<month, day, year>>; <<>> when the field is absent or
\* empty; InvalidDate when the text is not a date.
Connection(on1, on2, ind, pos, loc) ==
  [ConnectedOn |-> on1, connectedOn |-> on2,
   Industry |-> ind, Position |-> pos, Location |-> loc]

\* what toLocaleDateString() gives for an invalid Date
InvalidDate == <<0, 0, 0>>

\* conn["Connected On"] || conn.connectedOn, under one key only
ConnectDateOneKey(conn) == conn.ConnectedOn
\* conn["Connected On"] || conn.connectedOn
ConnectDate(conn) == OrElse(conn.ConnectedOn, conn.connectedOn)

\* new Date(text).getTime(), -1 standing for NaN
ConnectTime(conn) ==
  LET text == ConnectDate(conn)
  IN IF text = InvalidDate THEN -1 ELSE ParseLocaleDate(text)

\* new Date(text).toLocaleDateString()
ConnectLocaleDate(conn) ==
  IF ConnectTime(conn) = -1 THEN InvalidDate
  ELSE LocaleDateString(ConnectTime(conn))

\* the comparator of the sort; a NaN difference counts as 0
ConnectCompare(a, b) ==
  IF ConnectTime(a) = -1 \/ ConnectTime(b) = -1 THEN 0
  ELSE ConnectTime(a) - ConnectTime(b)

SortedConnections(connections) ==
  Sort(Filter(connections, LAMBDA conn : ConnectDate(conn) # <<>>), ConnectCompare)

\* startDate = new Date(); startDate.setDate(endDate.getDate() - days):
\* the day of the month is set within the month startDate was read in
GrowthStartDate(endDate, startRead, days) ==
  LET e == CivilFromDays(DayOf(endDate))
      c == CivilFromDays(DayOf(startRead))
  IN (DaysFromCivil(c.year, c.month, 1) + (e.day - days) - 1) * TicksPerDay
       + (startRead % TicksPerDay)

\* the number of elements of s equal to x
RECURSIVE CountEqual(_, _)
CountEqual(s, x) ==
  IF s = <<>> THEN 0
  ELSE (IF Head(s) = x THEN 1 ELSE 0) + CountEqual(Tail(s), x)

RECURSIVE GrowthLoop(_, _, _, _)
\* for (d = startDate; d <= endDate; d.setDate(d.getDate() + 1)).
\* connLocaleDates holds connDate.toLocaleDateString() of every sorted
\* connection: the filter callback computes the same text on every day.
GrowthLoop(d, endDate, cumulativeCount, connLocaleDates) ==
  IF d > endDate THEN <<>>
  ELSE LET dateStr == LocaleDateString(d)
           connectionsOnDate == CountEqual(connLocaleDates, dateStr)
       IN << [date |-> ShortLabel(d),
              totalConnections |-> cumulativeCount + connectionsOnDate,
              newConnections |-> connectionsOnDate] >>
          \o GrowthLoop(AddDays(d, 1), endDate,
                        cumulativeCount + connectionsOnDate, connLocaleDates)

RECURSIVE ConnectLocaleDates(_)
ConnectLocaleDates(sortedConnections) ==
  IF sortedConnections = <<>> THEN <<>>
  ELSE <<ConnectLocaleDate(Head(sortedConnections))>>
       \o ConnectLocaleDates(Tail(sortedConnections))

\* endRead and startRead are the two readings of the clock, new Date() at
\* line 188 and at line 189
calculateConnectionsGrowth(connectionsData, timeRange, endRead, startRead) ==
  LET connections == SnapshotOf(connectionsData)
      sortedConnections == SortedConnections(connections)
      days == RangeDays(timeRange)
      startDate == GrowthStartDate(endRead, startRead, days)
  IN GrowthLoop(startDate, endRead, 0, ConnectLocaleDates(sortedConnections))

----------------------------------------------------------------------------
(* calculatePostTypesBreakdown *)

UgcPosts(changelogData) ==
  Filter(ElementsOf(changelogData), LAMBDA e : IsCreate(e, "ugcPosts"))

TypeNames == <<"Text Only", "Image", "Video", "Article", "External Link">>

\* the branch of the classification a post takes, without the default of a
\* missing mediaType
PostTypeNoDefault(post) ==
  IF Len(post.mediaTypes) > 0
  THEN IF Includes(post.mediaTypes[1], s_VIDEO) THEN "Video"
       ELSE IF Includes(post.mediaTypes[1], s_IMAGE) THEN "Image"
       ELSE "External Link"
  ELSE IF Includes(post.text, s_http) THEN "External Link"
  ELSE "Text Only"

s_ARTICLE == <<"A", "R", "T", "I", "C", "L", "E">>

\* a classification with a branch for the media type ARTICLE
PostTypeWithArticle(post) ==
  IF Len(post.mediaTypes) > 0
  THEN LET mediaType == OrElse(post.mediaTypes[1], s_IMAGE)
       IN IF Includes(mediaType, s_VIDEO) THEN "Video"
          ELSE IF Includes(mediaType, s_IMAGE) THEN "Image"
          ELSE IF Includes(mediaType, s_ARTICLE) THEN "Article"
          ELSE "External Link"
  ELSE IF Includes(post.text, s_http) THEN "External Link"
  ELSE "Text Only"

\* the branch of the classification a post takes
PostType(post) ==
  IF Len(post.mediaTypes) > 0
  THEN LET mediaType == OrElse(post.mediaTypes[1], s_IMAGE)
       IN IF Includes(mediaType, s_VIDEO) THEN "Video"
          ELSE IF Includes(mediaType, s_IMAGE) THEN "Image"
          ELSE "External Link"
  ELSE IF Includes(post.text, s_http) THEN "External Link"
  ELSE "Text Only"

RECURSIVE TypeCounts(_, _)
\* posts.forEach(...) on typeCounts
TypeCounts(typeCounts, posts) ==
  IF posts = <<>> THEN typeCounts
  ELSE TypeCounts([typeCounts EXCEPT ![PostType(Head(posts))] = @ + 1], Tail(posts))

calculatePostTypesBreakdown(changelogData) ==
  LET posts == UgcPosts(changelogData)
      typeCounts == TypeCounts([n \in {TypeNames[i] : i \in 1..Len(TypeNames)} |-> 0], posts)
      entries == [i \in 1..Len(TypeNames) |->
                    [name |-> TypeNames[i], value |-> typeCounts[TypeNames[i]]]]
  IN Filter(entries, LAMBDA en : en.value > 0)

----------------------------------------------------------------------------
(* calculateTopHashtags *)

\* a row of the MEMBER_SHARE_INFO snapshot
Share(commentary) == [ShareCommentary |-> commentary]

\* the end of the run of word characters that starts at position i
RECURSIVE WordEnd(_, _)
WordEnd(s, i) ==
  IF i <= Len(s) /\ s[i] \in WordChars THEN WordEnd(s, i + 1) ELSE i - 1

RECURSIVE MatchHashtags(_, _)
\* content.match(/#[\w]+/g) || [], scanning from position i
MatchHashtags(s, i) ==
  IF i > Len(s) THEN <<>>
  ELSE IF s[i] = "#" /\ WordEnd(s, i + 1) > i
    THEN <<SubSeq(s, i, WordEnd(s, i + 1))>> \o MatchHashtags(s, WordEnd(s, i + 1) + 1)
  ELSE MatchHashtags(s, i + 1)

RECURSIVE CountHashtags(_, _)
\* texts.forEach(content => hashtags(content).forEach(count))
CountHashtags(hashtagCounts, texts) ==
  IF texts = <<>> THEN hashtagCounts
  ELSE CountHashtags(CountKeys(hashtagCounts, MatchHashtags(Head(texts), 1)), Tail(texts))

calculateTopHashtags(postsData, changelogData) ==
  LET snapshotPosts == SnapshotOf(postsData)
      changelogPosts == UgcPosts(changelogData)
      fromSnapshot ==
        CountHashtags(<<>>, [i \in 1..Len(snapshotPosts) |-> snapshotPosts[i].ShareCommentary])
      hashtagCounts ==
        CountHashtags(fromSnapshot, [i \in 1..Len(changelogPosts) |-> changelogPosts[i].text])
      top == TopEntries(hashtagCounts)
  IN [i \in 1..Len(top) |-> [hashtag |-> top[i].key, count |-> top[i].value]]

----------------------------------------------------------------------------
(* calculateAudienceDistribution *)

\* Object.entries(counts).sort(...).slice(0, 10).map(([name, value]) => ...)
Distribution(keys) ==
  LET top == TopEntries(CountKeys(<<>>, keys))
  IN [i \in 1..Len(top) |-> [name |-> top[i].key, value |-> top[i].value]]

calculateAudienceDistribution(connectionsData) ==
  LET connections == SnapshotOf(connectionsData)
  IN [industries |->
        Distribution([i \in 1..Len(connections) |-> OrElse(connections[i].Industry, s_Unknown)]),
      positions |->
        Distribution([i \in 1..Len(connections) |-> OrElse(connections[i].Position, s_Unknown)]),
      locations |->
        Distribution([i \in 1..Len(connections) |-> OrElse(connections[i].Location, s_Unknown)])]

----------------------------------------------------------------------------
(* calculateEngagementPerPost *)

\* the length content is cut to: substring(0, 50)
ContentLimit == 50

RECURSIVE EngagementMap(_, _)
\* userPosts.forEach(post => engagementMap[post.resourceId] = {...})
EngagementMap(engagementMap, userPosts) ==
  IF userPosts = <<>> THEN engagementMap
  ELSE LET post == Head(userPosts)
       IN EngagementMap(
            ObjSet(engagementMap, post.resourceId,
                   [postId |-> post.resourceId,
                    content |-> OrElse(post.text, s_PostContent),
                    likes |-> 0, comments |-> 0, shares |-> 0,
                    createdAt |-> post.capturedAt]),
            Tail(userPosts))

\* one step of the second elements.forEach, counting every method
EngagementCountAnyMethod(engagementMap, element) ==
  LET postId == element.object
  IN IF postId # <<>> /\ ObjHas(engagementMap, postId)
     THEN LET post == ObjGet(engagementMap, postId)
          IN IF element.resourceName = "socialActions/likes"
               THEN ObjSet(engagementMap, postId, [post EXCEPT !.likes = @ + 1])
             ELSE IF element.resourceName = "socialActions/comments"
               THEN ObjSet(engagementMap, postId, [post EXCEPT !.comments = @ + 1])
             ELSE IF element.resourceName = "socialActions/shares"
               THEN ObjSet(engagementMap, postId, [post EXCEPT !.shares = @ + 1])
             ELSE engagementMap
     ELSE engagementMap

\* one step of the second elements.forEach
EngagementCount(engagementMap, element) ==
  LET postId == element.object
  IN IF postId # <<>> /\ ObjHas(engagementMap, postId)
     THEN LET post == ObjGet(engagementMap, postId)
          IN IF IsCreate(element, "socialActions/likes")
               THEN ObjSet(engagementMap, postId, [post EXCEPT !.likes = @ + 1])
             ELSE IF IsCreate(element, "socialActions/comments")
               THEN ObjSet(engagementMap, postId, [post EXCEPT !.comments = @ + 1])
             ELSE IF IsCreate(element, "socialActions/shares")
               THEN ObjSet(engagementMap, postId, [post EXCEPT !.shares = @ + 1])
             ELSE engagementMap
     ELSE engagementMap

RECURSIVE EngagementForEach(_, _)
EngagementForEach(engagementMap, elements) ==
  IF elements = <<>> THEN engagementMap
  ELSE EngagementForEach(EngagementCount(engagementMap, Head(elements)), Tail(elements))

\* {...post, totalEngagement, content: substring(0, 50) + ("..." if longer)}
EngagementSummary(post) ==
  [postId |-> post.postId,
   content |-> SubSeq(post.content, 1,
                      IF Len(post.content) < ContentLimit
                      THEN Len(post.content) ELSE ContentLimit)
               \o (IF Len(post.content) > ContentLimit THEN s_Ellipsis ELSE <<>>),
   likes |-> post.likes, comments |-> post.comments, shares |-> post.shares,
   createdAt |-> post.createdAt,
   totalEngagement |-> post.likes + post.comments + post.shares]

RECURSIVE EngagementSinglePass(_, _)
\* a single forEach that seeds a summary when it meets the creation event
\* and counts an engagement only for a summary it has already seeded
EngagementSinglePass(engagementMap, elements) ==
  IF elements = <<>> THEN engagementMap
  ELSE LET element == Head(elements)
       IN EngagementSinglePass(
            IF IsCreate(element, "ugcPosts")
            THEN EngagementMap(engagementMap, <<element>>)
            ELSE EngagementCount(engagementMap, element),
            Tail(elements))

\* calculateEngagementPerPost with its two passes merged into one
calculateEngagementSinglePass(changelogData) ==
  LET values == ObjectEntries(EngagementSinglePass(<<>>, ElementsOf(changelogData)))
      summaries == [i \in 1..Len(values) |-> EngagementSummary(values[i].value)]
  IN Slice(Sort(summaries, LAMBDA a, b : b.totalEngagement - a.totalEngagement), TopN)

calculateEngagementPerPost(changelogData) ==
  LET elements == ElementsOf(changelogData)
      userPosts == UgcPosts(changelogData)
      engagementMap == EngagementForEach(EngagementMap(<<>>, userPosts), elements)
      values == ObjectEntries(engagementMap)
      summaries == [i \in 1..Len(values) |-> EngagementSummary(values[i].value)]
  IN Slice(Sort(summaries, LAMBDA a, b : b.totalEngagement - a.totalEngagement), TopN)

----------------------------------------------------------------------------
(* handler and fetchLinkedInData *)

\* the six fetches, in the order of the array given to Promise.all
Resources ==
  <<"PROFILE", "CONNECTIONS", "MEMBER_SHARE_INFO", "changelog", "SKILLS", "POSITIONS">>

ResourceSet == {Resources[i] : i \in 1..Len(Resources)}

\* const { timeRange = "30d" } = event.queryStringParameters || {}
TimeRangeOf(e) == IF e.timeRange = Undefined THEN "30d" ELSE e.timeRange

\* what fetchLinkedInData returns for an outcome of the upstream call:
\* fetch rejects (catch), status not ok, response.json() rejects (catch),
\* or the parsed body
FetchResult(outcome) ==
  IF outcome.kind = "ok" THEN outcome.body ELSE Null

Issued(r) == fetch[r] # "idle"
Settled(r) == fetch[r] = "settled"

\* the fetch the array literal evaluates next: the first not yet issued
NextToIssue ==
  Resources[CHOOSE i \in 1..Len(Resources) :
              ~Issued(Resources[i]) /\ \A j \in 1..(i - 1) : Issued(Resources[j])]

\* a join that resolves with the first fetch to settle
JoinResolvedAny == \E r \in ResourceSet : Settled(r)
\* await Promise.all([...]): resolved once every fetch has settled
JoinResolved == \A r \in ResourceSet : Settled(r)

\* the analytics object of lines 46-57
Analytics(timeRange) ==
  [postsEngagementsTrend |->
     calculatePostsEngagementsTrend(data["changelog"], timeRange, now),
   connectionsGrowth |->
     calculateConnectionsGrowth(data["CONNECTIONS"], timeRange, now, now + tick),
   postTypesBreakdown |-> calculatePostTypesBreakdown(data["changelog"]),
   topHashtags |-> calculateTopHashtags(data["MEMBER_SHARE_INFO"], data["changelog"]),
   engagementPerPost |-> calculateEngagementPerPost(data["changelog"]),
   messagesSentReceived |-> calculateMessagesSentReceived(data["changelog"], now),
   audienceDistribution |-> calculateAudienceDistribution(data["CONNECTIONS"]),
   timeRange |-> timeRange,
   lastUpdated |-> now]

\* an aggregator raises: the catch of line 70 answers 500
AssemblyThrows ==
  \/ CollectionThrows(data["changelog"])
  \/ CollectionThrows(data["CONNECTIONS"])
  \/ CollectionThrows(data["MEMBER_SHARE_INFO"])

NoResponse == [statusCode |-> 0, error |-> "", body |-> Null]

\* the browser side is not part of a request to the handler
NoQuery == [kind |-> "none"]

\* lines 2-11: the CORS preflight
Preflight(e) ==
  /\ pc = "idle"
  /\ e.httpMethod = "OPTIONS"
  /\ event' = e
  /\ pc' = "done"
  /\ response' = [statusCode |-> 200, error |-> "", body |-> Null]
  /\ UNCHANGED <<now, tick, fetch, fetchCount, data, analytics, query, view>>

\* lines 13-21: no authorization value
Unauthorized(e) ==
  /\ pc = "idle"
  /\ e.httpMethod # "OPTIONS"
  /\ ~Truthy(e.authorization)
  /\ event' = e
  /\ pc' = "done"
  /\ response' = [statusCode |-> 401, error |-> "No authorization token", body |-> Null]
  /\ UNCHANGED <<now, tick, fetch, fetchCount, data, analytics, query, view>>

\* lines 13-23: an authorized request enters the try block
Authorized(e) ==
  /\ pc = "idle"
  /\ e.httpMethod # "OPTIONS"
  /\ Truthy(e.authorization)
  /\ event' = e
  /\ pc' = "calling"
  /\ UNCHANGED <<now, tick, fetch, fetchCount, data, analytics, response, query, view>>

\* lines 35-40 and 86-111: one fetchLinkedInData call of the array literal
\* runs up to its await fetch(url)
IssueFetch ==
  /\ pc = "calling"
  /\ \E r \in ResourceSet : ~Issued(r)
  /\ fetch' = [fetch EXCEPT ![NextToIssue] = "requested"]
  /\ fetchCount' = [fetchCount EXCEPT ![NextToIssue] = @ + 1]
  /\ UNCHANGED <<pc, event, now, tick, data, analytics, response, query, view>>

\* line 34: all six promises exist; the handler suspends at await Promise.all
AwaitAll ==
  /\ pc = "calling"
  /\ \A r \in ResourceSet : Issued(r)
  /\ pc' = "awaiting"
  /\ UNCHANGED <<event, now, tick, fetch, fetchCount, data, analytics, response, query, view>>

\* lines 106-122: the upstream call of r completes and fetchLinkedInData
\* returns; it runs only while the handler is suspended
Settle(r, outcome) ==
  /\ pc = "awaiting"
  /\ fetch[r] = "requested"
  /\ fetch' = [fetch EXCEPT ![r] = "settled"]
  /\ data' = [data EXCEPT ![r] = FetchResult(outcome)]
  /\ UNCHANGED <<pc, event, now, tick, fetchCount, analytics, response, query, view>>

\* lines 43-69: the aggregators run and the response is 200
Respond ==
  /\ pc = "awaiting"
  /\ JoinResolved
  /\ ~AssemblyThrows
  /\ analytics' = Analytics(TimeRangeOf(event))
  /\ response' = [statusCode |-> 200, error |-> "", body |-> analytics']
  /\ pc' = "done"
  /\ UNCHANGED <<event, now, tick, fetch, fetchCount, data, query, view>>

\* lines 70-83: an aggregator raised
RespondError ==
  /\ pc = "awaiting"
  /\ JoinResolved
  /\ AssemblyThrows
  /\ response' = [statusCode |-> 500, error |-> "Failed to fetch analytics data",
                  body |-> Null]
  /\ pc' = "done"
  /\ UNCHANGED <<event, now, tick, fetch, fetchCount, data, analytics, query, view>>

----------------------------------------------------------------------------
(* The inputs of the handler *)

\* the days on which requests are served
Today == DaysFromCivil(2026, 11, 6)
NowDays == {Today, DaysFromCivil(2024, 3, 1)}
\* the first and the last tick of each of these days
Nows == {d * TicksPerDay + t : d \in NowDays, t \in {0, TicksPerDay - 1}}

Events ==
  [httpMethod : {"GET", "OPTIONS"},
   authorization : {Undefined, "", "Bearer t"},
   timeRange : {Undefined, "7d", "1y"}]

s_p1 == <<"p", "1">>
s_tagA == <<"#", "a">>

\* bodies the changelog endpoint may answer with
ChangelogBodies(clk) ==
  {Json(<<>>),
   Json(<<Element("ugcPosts", "CREATE", clk, s_p1, <<>>, <<>>, s_tagA, "u1", "u1"),
          Element("socialActions/likes", "CREATE", clk, <<"l">>, s_p1, <<>>, <<>>, "u2", "u1")>>),
   Malformed}

\* bodies a snapshot endpoint may answer with
SnapshotBodies(r, clk) ==
  IF r = "CONNECTIONS"
  THEN {SnapshotJson(<<Connection(LocaleDateString(clk), <<>>, <<>>, <<>>, <<"7">>)>>),
        Json(<<>>)}
  ELSE IF r = "MEMBER_SHARE_INFO"
  THEN {SnapshotJson(<<Share(s_tagA)>>)}
  ELSE {Json(<<>>)}

Outcomes(r, clk) ==
  {[kind |-> k, body |-> Null] : k \in {"rejected", "notOk", "badJson"}}
  \cup {[kind |-> "ok", body |-> b] :
          b \in IF r = "changelog" THEN ChangelogBodies(clk) ELSE SnapshotBodies(r, clk)}

Init ==
  /\ pc = "idle"
  /\ event = [httpMethod |-> "", authorization |-> Undefined, timeRange |-> Undefined]
  /\ now \in {n \in Nows : DayOf(n) = Today}
  /\ tick \in {0, 1}
  /\ fetch = [r \in ResourceSet |-> "idle"]
  /\ fetchCount = [r \in ResourceSet |-> 0]
  /\ data = [r \in ResourceSet |-> Null]
  /\ analytics = Null
  /\ response = NoResponse
  /\ query = NoQuery
  /\ view = "none"

Next ==
  \/ \E e \in Events : Preflight(e)
  \/ \E e \in Events : Unauthorized(e)
  \/ \E e \in Events : Authorized(e)
  \/ IssueFetch
  \/ AwaitAll
  \/ \E r \in ResourceSet : \E o \in Outcomes(r, now) : Settle(r, o)
  \/ Respond
  \/ RespondError

Spec == Init /\ [][Next]_vars

----------------------------------------------------------------------------
(* The aggregators on their own: an input is drawn, one aggregator is applied *)

\* all sequences over S of length at most n
SeqsUpTo(S, n) == UNION {[1..k -> S] : k \in 0..n}

TimeRanges == {"7d", "30d", "90d", "1y"}

\* the state in which the six fetches have settled with the bodies d
Fetched(timeRange, clk, tk, d) ==
  /\ pc = "apply"
  /\ event = [httpMethod |-> "GET", authorization |-> "Bearer t", timeRange |-> timeRange]
  /\ now = clk
  /\ tick = tk
  /\ fetch = [r \in ResourceSet |-> "settled"]
  /\ fetchCount = [r \in ResourceSet |-> 1]
  /\ data = d
  /\ analytics = Null
  /\ response = NoResponse
  /\ query = NoQuery
  /\ view = "none"

NoData == [r \in ResourceSet |-> Null]

\* one aggregator call of lines 47-53
Apply(name, value) ==
  /\ pc = "apply"
  /\ pc' = "applied"
  /\ analytics' = [name |-> name, value |-> value]
  /\ UNCHANGED <<event, now, tick, fetch, fetchCount, data, response, query, view>>

Applied(name) == pc = "applied" /\ analytics.name = name

\* the same month and day one year before clk
YearBefore(clk) ==
  LET c == CivilFromDays(DayOf(clk))
  IN DaysFromCivil(c.year - 1, c.month, c.day) * TicksPerDay + (clk % TicksPerDay)

\* capture times around a range of days that ends at clk: today, the oldest
\* day of the range, the day before it, a year ago, tomorrow
CaptureTimes(clk, days) ==
  {clk, AddDays(clk, -(days - 1)), AddDays(clk, -days), YearBefore(clk), AddDays(clk, 1)}

TrendElements(clk, days) ==
  {Element("ugcPosts", "CREATE", at, s_p1, <<>>, <<>>, <<>>, "u1", "u1") :
     at \in CaptureTimes(clk, days)}
  \cup
  {Element("socialActions/likes", "CREATE", at, <<"l">>, s_p1, <<>>, <<>>, "u2", "u1") :
     at \in {clk, YearBefore(clk)}}
  \cup
  {Element("socialActions/comments", "CREATE", clk, <<"c">>, s_p1, <<>>, <<>>, "u2", "u1"),
   Element("socialActions/shares", "CREATE", clk, <<"s">>, s_p1, <<>>, <<>>, "u2", "u1"),
   Element("socialActions/likes", "DELETE", clk, <<"l">>, s_p1, <<>>, <<>>, "u2", "u1"),
   Element("messages", "CREATE", clk, <<"m">>, <<>>, <<>>, <<>>, "u2", "u1")}

InitTrend ==
  \E timeRange \in TimeRanges, clk \in Nows :
    \E changelogData \in
         {Null} \cup {Json(es) : es \in SeqsUpTo(TrendElements(clk, RangeDays(timeRange)),
                                                 MaxTrendElems)} :
      Fetched(timeRange, clk, 0, [NoData EXCEPT !["changelog"] = changelogData])

ApplyTrend ==
  Apply("postsEngagementsTrend",
        calculatePostsEngagementsTrend(data["changelog"], TimeRangeOf(event), now))

ApplyMessages ==
  Apply("messagesSentReceived", calculateMessagesSentReceived(data["changelog"], now))

NextTrend == ApplyTrend \/ ApplyMessages

SpecTrend == InitTrend /\ [][NextTrend]_vars

----------------------------------------------------------------------------
(* Properties of the day-bucket aggregators *)

\* the "Nov 6" label of a day number
LabelOfDay(d) == LET c == CivilFromDays(d) IN <<c.month, c.day>>

\* series has n entries whose labels are those of the n consecutive calendar
\* days that end today, oldest first
DenseDays(series, n) ==
  /\ Len(series) = n
  /\ \A k \in 1..Len(series) : series[k].date = LabelOfDay(DayOf(now) - (n - k))

\* C3: for the range selectors 7d, 30d and 90d and every changelog,
\* calculatePostsEngagementsTrend returns exactly 7, 30 or 90 buckets, one
\* per calendar day, consecutive, oldest first, the last being today; and
\* calculateMessagesSentReceived returns exactly 30 such buckets.
C3_DenseBuckets ==
  /\ Applied("postsEngagementsTrend") =>
       /\ event.timeRange = "7d" => DenseDays(analytics.value, 7)
       /\ event.timeRange = "30d" => DenseDays(analytics.value, 30)
       /\ event.timeRange = "90d" => DenseDays(analytics.value, 90)
  /\ Applied("messagesSentReceived") => DenseDays(analytics.value, 30)

\* a 90-day trend over a changelog with an event of today: 90 buckets, the
\* last of them counting the event
C3_Witness ==
  /\ Applied("postsEngagementsTrend")
  /\ event.timeRange = "90d"
  /\ Len(ElementsOf(data["changelog"])) = 2
  /\ Len(analytics.value) = 90
  /\ analytics.value[90].posts = 1

\* the events captured on one of the days of the range that ends today
InRange(elements, days) ==
  SelectSeq(elements,
            LAMBDA e : /\ DayOf(e.capturedAt) <= DayOf(now)
                       /\ DayOf(e.capturedAt) > DayOf(now) - days)

\* the number of ugcPosts/CREATE events captured today
PostsToday(elements) ==
  Cardinality({i \in 1..Len(elements) :
                 /\ elements[i].resourceName = "ugcPosts"
                 /\ elements[i].method = "CREATE"
                 /\ DayOf(elements[i].capturedAt) = DayOf(now)})

\* C5: in calculatePostsEngagementsTrend an event captured on a day outside
\* the selected range (earlier than the oldest bucket, or after today)
\* changes no bucket: the result is that of the changelog without these
\* events; an event captured today is counted in the last bucket.
C5_OutsideRangeIgnored ==
  Applied("postsEngagementsTrend") /\ event.timeRange \in {"7d", "30d", "90d"} =>
    LET elements == ElementsOf(data["changelog"])
        days == Len(analytics.value)
    IN /\ analytics.value =
            calculatePostsEngagementsTrend(Json(InRange(elements, days)),
                                           event.timeRange, now)
       /\ analytics.value[days].posts = PostsToday(elements)

----------------------------------------------------------------------------
(* Properties of the handler *)

RequestTaken == pc \in {"calling", "awaiting", "done"}

NoAuthorization == event.authorization \in {Undefined, ""}

\* C1: a non-OPTIONS request whose headers carry no authorization value is
\* answered 401 with the error "No authorization token", and no upstream
\* fetch is issued for it, neither before nor after the response.
C1_Unauthorized ==
  RequestTaken /\ event.httpMethod # "OPTIONS" /\ NoAuthorization =>
    /\ pc = "done"
    /\ response.statusCode = 401
    /\ response.error = "No authorization token"
    /\ \A r \in ResourceSet : fetch[r] = "idle" /\ fetchCount[r] = 0

\* a GET with an empty authorization header has been answered 401
C1_Witness ==
  /\ pc = "done"
  /\ event.httpMethod = "GET"
  /\ event.authorization = ""
  /\ response.statusCode = 401

ZeroTrend(series) ==
  /\ Len(series) > 0
  /\ \A k \in 1..Len(series) :
       /\ series[k].posts = 0 /\ series[k].likes = 0
       /\ series[k].comments = 0 /\ series[k].totalEngagement = 0

ZeroGrowth(series) ==
  /\ Len(series) > 0
  /\ \A k \in 1..Len(series) :
       series[k].totalConnections = 0 /\ series[k].newConnections = 0

ZeroMessages(series) ==
  /\ Len(series) > 0
  /\ \A k \in 1..Len(series) : series[k].sent = 0 /\ series[k].received = 0

\* every resource either failed or delivered a body of the upstream shape
BodiesWellFormed == \A r \in ResourceSet : data[r] = Null \/ data[r].array

\* C2: for an authorized request, whatever subset of the six fetches fails
\* (all six included), the response is 200 and not 500, and each aggregator
\* fed null yields its empty result: the trend, growth and message series
\* zero-filled, the breakdown, hashtag, engagement and audience lists empty.
C2_NullIsEmpty ==
  pc = "done" /\ event.httpMethod # "OPTIONS" /\ ~NoAuthorization /\ BodiesWellFormed =>
    /\ response.statusCode = 200
    /\ response.body = analytics
    /\ data["changelog"] = Null =>
         /\ ZeroTrend(analytics.postsEngagementsTrend)
         /\ ZeroMessages(analytics.messagesSentReceived)
         /\ analytics.postTypesBreakdown = <<>>
         /\ analytics.engagementPerPost = <<>>
    /\ data["changelog"] = Null /\ data["MEMBER_SHARE_INFO"] = Null =>
         analytics.topHashtags = <<>>
    /\ data["CONNECTIONS"] = Null =>
         /\ ZeroGrowth(analytics.connectionsGrowth)
         /\ analytics.audienceDistribution.industries = <<>>
         /\ analytics.audienceDistribution.positions = <<>>
         /\ analytics.audienceDistribution.locations = <<>>

\* all six fetches have failed and the response is 200
C2_Witness ==
  /\ pc = "done"
  /\ \A r \in ResourceSet : fetchCount[r] = 1 /\ data[r] = Null
  /\ response.statusCode = 200
  /\ analytics.topHashtags = <<>>

\* C10: for an authorized request the six fetches are all started before
\* any of them is awaited or settles, each resource is fetched exactly once
\* (never retried), and no aggregator runs and no response is produced until
\* all six have settled, by success or by failure turned into null.
C10_FanOutFanIn ==
  /\ \A r \in ResourceSet : fetchCount[r] <= 1
  /\ (pc = "awaiting" \/ \E r \in ResourceSet : Settled(r)) =>
       \A r \in ResourceSet : Issued(r) /\ fetchCount[r] = 1
  /\ pc # "idle" /\ event.httpMethod # "OPTIONS" /\ ~NoAuthorization
       /\ (analytics # Null \/ response # NoResponse) =>
       \A r \in ResourceSet : Settled(r) /\ fetchCount[r] = 1

\* a response of 200 built from a failed changelog fetch and a successful
\* connections fetch
C10_Witness ==
  /\ pc = "done"
  /\ response.statusCode = 200
  /\ data["changelog"] = Null
  /\ data["CONNECTIONS"] # Null
  /\ \A r \in ResourceSet : fetchCount[r] = 1

----------------------------------------------------------------------------
(* calculateConnectionsGrowth on its own *)

\* n copies of x
RECURSIVE Copies(_, _)
Copies(n, x) == IF n = 0 THEN <<>> ELSE <<x>> \o Copies(n - 1, x)

\* rows by the place of their connect date: today under "Connected On", the
\* first day of the range under connectedOn, the day before the range, a
\* year ago, tomorrow, no date, a text that is no date, and a row whose two
\* keys disagree
ConnToday(clk) == Connection(LocaleDateString(clk), <<>>, <<>>, <<>>, <<>>)
ConnFirstDay(clk, days) ==
  Connection(<<>>, LocaleDateString(AddDays(clk, -days)), <<>>, <<>>, <<>>)
ConnBefore(clk, days) ==
  Connection(LocaleDateString(AddDays(clk, -(days + 1))), <<>>, <<>>, <<>>, <<>>)
ConnYearBefore(clk) ==
  Connection(<<>>, LocaleDateString(YearBefore(clk)), <<>>, <<>>, <<>>)

\* rows that count on no day of a range, or on the day before today
OddRows(clk) ==
  {ConnYearBefore(clk),
   Connection(LocaleDateString(AddDays(clk, 1)), <<>>, <<>>, <<>>, <<>>),
   Connection(<<>>, <<>>, <<>>, <<>>, <<>>),
   Connection(InvalidDate, <<>>, <<>>, <<>>, <<>>),
   Connection(LocaleDateString(AddDays(clk, -1)), LocaleDateString(YearBefore(clk)),
              <<>>, <<>>, <<>>)}

\* snapshots of a rows dated before the range, b rows dated today, d rows
\* dated on its first day, and at most one odd row
GrowthSnapshots(clk, days) ==
  {Copies(a, ConnBefore(clk, days)) \o Copies(b, ConnToday(clk))
     \o Copies(d, ConnFirstDay(clk, days)) \o odd :
     a \in 0..MaxCopies, b \in 0..MaxCopies, d \in 0..1,
     odd \in {<<>>} \cup {<<row>> : row \in OddRows(clk)}}

InitGrowth ==
  \E timeRange \in TimeRanges, clk \in Nows, tk \in {0, 1} :
    \E connectionsData \in
         {Null, Json(<<>>)}
         \cup {SnapshotJson(rows) : rows \in GrowthSnapshots(clk, RangeDays(timeRange))} :
      Fetched(timeRange, clk, tk, [NoData EXCEPT !["CONNECTIONS"] = connectionsData])

ApplyGrowth ==
  Apply("connectionsGrowth",
        calculateConnectionsGrowth(data["CONNECTIONS"], TimeRangeOf(event), now, now + tick))

NextGrowth == ApplyGrowth

SpecGrowth == InitGrowth /\ [][NextGrowth]_vars

\* series has n entries whose labels are those of n consecutive calendar days
ConsecutiveDays(series, n) ==
  /\ Len(series) = n
  /\ \E first \in (DayOf(now) - n - 1)..DayOf(now) :
       \A k \in 1..Len(series) : series[k].date = LabelOfDay(first + k - 1)

\* C4: for the range selectors 7d, 30d and 90d and every connections
\* snapshot, the growth series has exactly 7, 30 or 90 entries, with
\* strictly increasing dates and no gaps.
C4_GrowthLength ==
  Applied("connectionsGrowth") =>
    /\ event.timeRange = "7d" => ConsecutiveDays(analytics.value, 7)
    /\ event.timeRange = "30d" => ConsecutiveDays(analytics.value, 30)
    /\ event.timeRange = "90d" => ConsecutiveDays(analytics.value, 90)

\* the connect date of a row, under either key
C9_DateOf(conn) ==
  IF conn.ConnectedOn # <<>> THEN conn.ConnectedOn ELSE conn.connectedOn

\* the days the series covers: Len(series) days from the start of the range
C9_RangeDays(series) ==
  LET first == DayOf(GrowthStartDate(now, now + tick, RangeDays(TimeRangeOf(event))))
  IN first..(first + Len(series) - 1)

\* the number of rows dated on a day of the range
C9_RowsInRange(rows, series) ==
  Cardinality({i \in 1..Len(rows) :
                 /\ C9_DateOf(rows[i]) \notin {<<>>, InvalidDate}
                 /\ DaysFromCivil(C9_DateOf(rows[i])[3], C9_DateOf(rows[i])[1],
                                  C9_DateOf(rows[i])[2]) \in C9_RangeDays(series)})

----------------------------------------------------------------------------
(* calculatePostTypesBreakdown on its own *)

s_a == <<"a">>
s_link == <<"a", " ", "h", "t", "t", "p", "s">>
s_urnVideo == <<"a", "_", "V", "I", "D", "E", "O">>
s_other == <<"A", "R", "T", "I", "C", "L", "E">>

\* the media lists of the posts drawn: none, a video, an image, a video by
\* a longer type name, a type that is neither, an item without mediaType,
\* and an image followed by a video
MediaLists ==
  {<<>>, <<s_VIDEO>>, <<s_IMAGE>>, <<s_urnVideo>>, <<s_other>>, << <<>> >>,
   <<s_IMAGE, s_VIDEO>>}

PostElements(clk) ==
  {Element("ugcPosts", "CREATE", clk, s_p1, <<>>, m, t, "u1", "u1") :
     m \in MediaLists, t \in {<<>>, s_link}}
  \cup
  {Element("ugcPosts", "CREATE", clk, s_p1, <<>>, <<>>, s_a, "u1", "u1"),
   Element("ugcPosts", "DELETE", clk, s_p1, <<>>, <<s_VIDEO>>, <<>>, "u1", "u1"),
   Element("socialActions/likes", "CREATE", clk, <<"l">>, s_p1, <<>>, s_link, "u2", "u1")}

InitPostTypes ==
  \E clk \in {n \in Nows : DayOf(n) = Today} :
    \E changelogData \in
         {Null} \cup {Json(es) : es \in SeqsUpTo(PostElements(clk), MaxPostElems)} :
      Fetched("30d", clk, 0, [NoData EXCEPT !["changelog"] = changelogData])

ApplyPostTypes ==
  Apply("postTypesBreakdown", calculatePostTypesBreakdown(data["changelog"]))

NextPostTypes == ApplyPostTypes

SpecPostTypes == InitPostTypes /\ [][NextPostTypes]_vars

\* the value the breakdown gives a category: 0 when it has no entry
ValueOf(breakdown, name) ==
  IF \E i \in 1..Len(breakdown) : breakdown[i].name = name
  THEN breakdown[CHOOSE i \in 1..Len(breakdown) : breakdown[i].name = name].value
  ELSE 0

RECURSIVE SumValues(_)
SumValues(breakdown) ==
  IF breakdown = <<>> THEN 0 ELSE Head(breakdown).value + SumValues(Tail(breakdown))

\* the ugcPosts/CREATE events of the changelog, by position
CreatedPosts ==
  {i \in 1..Len(ElementsOf(data["changelog"])) :
     /\ ElementsOf(data["changelog"])[i].resourceName = "ugcPosts"
     /\ ElementsOf(data["changelog"])[i].method = "CREATE"}

\* the priority rule as the claim words it, on the declared type of the
\* first media item
C7_ClaimedCategory(post) ==
  IF Len(post.mediaTypes) > 0 /\ Includes(post.mediaTypes[1], s_VIDEO) THEN "Video"
  ELSE IF Len(post.mediaTypes) > 0 /\ Includes(post.mediaTypes[1], s_IMAGE) THEN "Image"
  ELSE IF Len(post.mediaTypes) > 0 THEN "External Link"
  ELSE IF Includes(post.text, s_http) THEN "External Link"
  ELSE "Text Only"

\* the rule with a first media item that declares no type counted as IMAGE
C7_Category(post) ==
  IF Len(post.mediaTypes) > 0 /\ post.mediaTypes[1] = <<>> THEN "Image"
  ELSE C7_ClaimedCategory(post)

\* the breakdown counts every ugcPosts/CREATE event once, in the category
\* Category gives it
CountsBy(Category(_)) ==
  LET elements == ElementsOf(data["changelog"])
  IN /\ \A i, j \in 1..Len(analytics.value) :
          analytics.value[i].name = analytics.value[j].name => i = j
     /\ \A n \in {TypeNames[i] : i \in 1..Len(TypeNames)} :
          ValueOf(analytics.value, n) =
            Cardinality({i \in CreatedPosts : Category(elements[i]) = n})
     /\ SumValues(analytics.value) = Cardinality(CreatedPosts)

\* C7 as claimed: every ugcPosts/CREATE event goes to exactly one category
\* by the priority rule (media and first type contains VIDEO: Video; else
\* contains IMAGE: Image; else media: External Link; no media and "http" in
\* the text: External Link; else Text Only), so the values sum to the number
\* of such events.
C7_AsClaimed == Applied("postTypesBreakdown") => CountsBy(C7_ClaimedCategory)

\* C7, amended: the same rule, where a first media item without a declared
\* type counts as IMAGE.
C7_PostTypes == Applied("postTypesBreakdown") => CountsBy(C7_Category)

\* a post whose first media item declares no type, counted as Image, beside
\* a link post
C7_Witness ==
  /\ Applied("postTypesBreakdown")
  /\ Cardinality(CreatedPosts) = 2
  /\ \E i \in CreatedPosts : ElementsOf(data["changelog"])[i].mediaTypes = << <<>> >>
  /\ ValueOf(analytics.value, "Image") = 1
  /\ ValueOf(analytics.value, "External Link") = 1

----------------------------------------------------------------------------
(* calculateEngagementPerPost on its own *)

s_p2 == <<"p", "2">>
s_q == <<"q">>

EngagementElements(clk) ==
  {Element("ugcPosts", "CREATE", clk, id, <<>>, <<>>, s_a, "u1", "u1") : id \in {s_p1, s_p2}}
  \cup
  {Element(rn, "CREATE", clk, <<"x">>, s_p1, <<>>, <<>>, "u2", "u1") :
     rn \in {"socialActions/likes", "socialActions/comments", "socialActions/shares"}}
  \cup
  {Element("socialActions/likes", "CREATE", clk, <<"x">>, s_p2, <<>>, <<>>, "u2", "u1"),
   Element("socialActions/likes", "CREATE", clk, <<"x">>, s_q, <<>>, <<>>, "u2", "u1"),
   Element("socialActions/likes", "DELETE", clk, <<"x">>, s_p1, <<>>, <<>>, "u2", "u1"),
   Element("ugcPosts", "DELETE", clk, s_q, <<>>, <<>>, s_a, "u1", "u1")}

InitEngagement ==
  \E clk \in {n \in Nows : DayOf(n) = Today} :
    \E changelogData \in
         {Null} \cup {Json(es) : es \in SeqsUpTo(EngagementElements(clk), MaxEngElems)} :
      Fetched("30d", clk, 0, [NoData EXCEPT !["changelog"] = changelogData])

ApplyEngagement ==
  Apply("engagementPerPost", calculateEngagementPerPost(data["changelog"]))

NextEngagement == ApplyEngagement

SpecEngagement == InitEngagement /\ [][NextEngagement]_vars

\* the number of CREATE events of resource rn whose activity.object is id
Engagements(rn, id) ==
  Cardinality({i \in 1..Len(ElementsOf(data["changelog"])) :
                 /\ ElementsOf(data["changelog"])[i].resourceName = rn
                 /\ ElementsOf(data["changelog"])[i].method = "CREATE"
                 /\ ElementsOf(data["changelog"])[i].object = id})

\* the identifiers that have a ugcPosts/CREATE event
CreatedIds == {ElementsOf(data["changelog"])[i].resourceId : i \in CreatedPosts}

\* C8: calculateEngagementPerPost has a summary only for identifiers with a
\* ugcPosts/CREATE event; the likes, comments and shares of a summary are
\* the numbers of CREATE events of socialActions/likes, /comments and
\* /shares whose activity.object is its postId, and totalEngagement is
\* their sum; events that reference an identifier without a creation event
\* change no summary.
C8_EngagementPerPost ==
  Applied("engagementPerPost") =>
    /\ \A k \in 1..Len(analytics.value) :
         LET post == analytics.value[k]
         IN /\ post.postId \in CreatedIds
            /\ post.likes = Engagements("socialActions/likes", post.postId)
            /\ post.comments = Engagements("socialActions/comments", post.postId)
            /\ post.shares = Engagements("socialActions/shares", post.postId)
            /\ post.totalEngagement = post.likes + post.comments + post.shares
    /\ \A k, l \in 1..Len(analytics.value) :
         analytics.value[k].postId = analytics.value[l].postId => k = l
    /\ Cardinality(CreatedIds) <= TopN =>
         CreatedIds = {analytics.value[k].postId : k \in 1..Len(analytics.value)}

\* one post and two likes that reference it: likes = 2, totalEngagement = 2
C8_Witness ==
  /\ Applied("engagementPerPost")
  /\ Len(ElementsOf(data["changelog"])) = 3
  /\ Cardinality(CreatedPosts) = 1
  /\ Len(analytics.value) = 1
  /\ analytics.value[1].likes = 2
  /\ analytics.value[1].totalEngagement = 2

----------------------------------------------------------------------------
(* The top-N aggregators on their own *)

s_7 == <<"7">>
s_10 == <<"1", "0">>

\* eleven distinct keys, two of them written as integers
ManyKeys ==
  <<<<"b">>, s_10, <<"c">>, s_7, <<"h">>, <<"t">>, <<"p">>,
    <<"a", "a">>, <<"a", "b">>, <<"a", "c">>, <<"b", "b">>>>

\* a few keys for the rows and events that follow
FewKeys == {s_a, s_10, s_7, <<>>}

\* connections that differ in Location, Industry and Position
ManyConnections ==
  [i \in 1..Len(ManyKeys) |-> Connection(<<>>, <<>>, ManyKeys[i], s_a, ManyKeys[i])]
FewConnections ==
  {Connection(<<>>, <<>>, k, k, k) : k \in FewKeys}
  \cup {Connection(<<>>, <<>>, s_a, s_7, s_10)}

\* a commentary naming eleven hashtags, and short ones
RECURSIVE Hashtagged(_)
Hashtagged(keys) ==
  IF keys = <<>> THEN <<>> ELSE <<"#">> \o Head(keys) \o <<" ">> \o Hashtagged(Tail(keys))
FewTexts ==
  {Hashtagged(<<s_a>>), Hashtagged(<<s_7, s_a>>), Hashtagged(<<s_10, s_7, s_10>>),
   <<"#", "#", "a", "#">>, <<>>}

\* posts that differ in identifier, and likes that reference them
ManyPosts(clk) ==
  [i \in 1..Len(ManyKeys) |->
     Element("ugcPosts", "CREATE", clk, ManyKeys[i], <<>>, <<>>, <<>>, "u1", "u1")]
FewEvents(clk) ==
  {Element("ugcPosts", "CREATE", clk, k, <<>>, <<>>, <<>>, "u1", "u1") : k \in {s_a, s_10, s_7}}
  \cup
  {Element("socialActions/likes", "CREATE", clk, <<"x">>, k, <<>>, <<>>, "u2", "u1") :
     k \in {s_a, s_7}}

InitRank ==
  \E clk \in {n \in Nows : DayOf(n) = Today} :
    \/ \E many \in {<<>>, ManyConnections} :
         \E few \in SeqsUpTo(FewConnections, MaxRankElems) :
           Fetched("30d", clk, 0,
                   [NoData EXCEPT !["CONNECTIONS"] = SnapshotJson(many \o few)])
    \/ \E many \in {<<>>, <<Share(Hashtagged(ManyKeys))>>} :
         \E few \in SeqsUpTo(FewTexts, MaxRankElems) :
           Fetched("30d", clk, 0,
                   [NoData EXCEPT
                      !["MEMBER_SHARE_INFO"] =
                        SnapshotJson(many \o [i \in 1..Len(few) |-> Share(few[i])]),
                      !["changelog"] =
                        Json([i \in 1..Len(few) |->
                                Element("ugcPosts", "CREATE", clk, s_p1, <<>>, <<>>,
                                        few[Len(few) + 1 - i], "u1", "u1")])])
    \/ \E many \in {<<>>, ManyPosts(clk)} :
         \E few \in SeqsUpTo(FewEvents(clk), MaxRankElems) :
           Fetched("30d", clk, 0, [NoData EXCEPT !["changelog"] = Json(many \o few)])

ApplyTopHashtags ==
  Apply("topHashtags", calculateTopHashtags(data["MEMBER_SHARE_INFO"], data["changelog"]))

ApplyAudience ==
  Apply("audienceDistribution", calculateAudienceDistribution(data["CONNECTIONS"]))

ApplyTopEngagement ==
  Apply("engagementPerPost", calculateEngagementPerPost(data["changelog"]))

NextRank == ApplyTopHashtags \/ ApplyAudience \/ ApplyTopEngagement

SpecRank == InitRank /\ [][NextRank]_vars

\* the position at which key is first encountered in keys
FirstSeen(keys, key) ==
  CHOOSE i \in 1..Len(keys) : keys[i] = key /\ \A j \in 1..(i - 1) : keys[j] # key

\* ranked, a list of [key, count], has at most 10 entries, is sorted
\* non-increasing by count, and among equal counts keeps the order in which
\* the keys are first encountered in keys
RankedFirstSeen(ranked, keys) ==
  /\ Len(ranked) <= 10
  /\ \A i, j \in 1..Len(ranked) :
       i < j =>
         /\ ranked[i].count >= ranked[j].count
         /\ ranked[i].count = ranked[j].count =>
              FirstSeen(keys, ranked[i].key) < FirstSeen(keys, ranked[j].key)

\* the keys of the three distributions, in the order of the snapshot rows
IndustryKeys ==
  [i \in 1..Len(SnapshotOf(data["CONNECTIONS"])) |->
     OrElse(SnapshotOf(data["CONNECTIONS"])[i].Industry, s_Unknown)]
PositionKeys ==
  [i \in 1..Len(SnapshotOf(data["CONNECTIONS"])) |->
     OrElse(SnapshotOf(data["CONNECTIONS"])[i].Position, s_Unknown)]
LocationKeys ==
  [i \in 1..Len(SnapshotOf(data["CONNECTIONS"])) |->
     OrElse(SnapshotOf(data["CONNECTIONS"])[i].Location, s_Unknown)]

\* the hashtags in the order met: the snapshot texts, then the changelog's
RECURSIVE AllHashtags(_)
AllHashtags(texts) ==
  IF texts = <<>> THEN <<>> ELSE MatchHashtags(Head(texts), 1) \o AllHashtags(Tail(texts))
HashtagKeys ==
  AllHashtags([i \in 1..Len(SnapshotOf(data["MEMBER_SHARE_INFO"])) |->
                 SnapshotOf(data["MEMBER_SHARE_INFO"])[i].ShareCommentary]
              \o [i \in 1..Len(UgcPosts(data["changelog"])) |->
                    UgcPosts(data["changelog"])[i].text])

\* the post identifiers in the order of their creation events
PostIdKeys ==
  [i \in 1..Len(UgcPosts(data["changelog"])) |-> UgcPosts(data["changelog"])[i].resourceId]

AsRanked(list, Key(_), Count(_)) ==
  [i \in 1..Len(list) |-> [key |-> Key(list[i]), count |-> Count(list[i])]]

NameOf(en) == en.name
ValueField(en) == en.value

\* C6: every top-N output (topHashtags, the three audienceDistribution
\* lists, engagementPerPost) has at most 10 entries, is sorted non-increasing
\* by its count, and among entries of equal count keeps the order in which
\* their keys were first encountered in the input, also for keys that look
\* like integers.
C6_TopNFirstSeen ==
  /\ Applied("topHashtags") =>
       RankedFirstSeen(AsRanked(analytics.value, LAMBDA en : en.hashtag, LAMBDA en : en.count),
                       HashtagKeys)
  /\ Applied("audienceDistribution") =>
       /\ RankedFirstSeen(AsRanked(analytics.value.industries, NameOf, ValueField),
                          IndustryKeys)
       /\ RankedFirstSeen(AsRanked(analytics.value.positions, NameOf, ValueField),
                          PositionKeys)
       /\ RankedFirstSeen(AsRanked(analytics.value.locations, NameOf, ValueField),
                          LocationKeys)
  /\ Applied("engagementPerPost") =>
       RankedFirstSeen(AsRanked(analytics.value, LAMBDA en : en.postId,
                                LAMBDA en : en.totalEngagement),
                       PostIdKeys)

----------------------------------------------------------------------------
(* calculateMessagesSentReceived on its own *)

MaxMsgElems == 2

\* capture times around the 30 days that end at clk: now, the oldest bucket
\* day, exactly 30 days ago (the filter bound of line 332), one tick later,
\* one tick earlier
MessageTimes(clk) ==
  {clk, AddDays(clk, -(MessageDays - 1)), AddDays(clk, -MessageDays),
   AddDays(clk, -MessageDays) + 1, AddDays(clk, -MessageDays) - 1}

MessageElements(clk) ==
  {Element("messages", "CREATE", at, <<"m">>, <<>>, <<>>, <<>>, act, "u1") :
     at \in MessageTimes(clk), act \in {"u1", "u2"}}
  \cup
  {Element("messages", "CREATE", clk, <<"m">>, <<>>, <<>>, <<>>, act, Undefined) :
     act \in {"u1", Undefined}}
  \cup
  {Element("ugcPosts", "CREATE", clk, s_p1, <<>>, <<>>, <<>>, "u2", own) :
     own \in {"u2", Undefined}}

InitMessages ==
  \E clk \in Nows :
    \E changelogData \in
         {Null} \cup {Json(es) : es \in SeqsUpTo(MessageElements(clk), MaxMsgElems)} :
      Fetched("30d", clk, 0, [NoData EXCEPT !["changelog"] = changelogData])

ApplyMessagesOnly ==
  Apply("messagesSentReceived", calculateMessagesSentReceived(data["changelog"], now))

NextMessages == ApplyMessagesOnly

SpecMessages == InitMessages /\ [][NextMessages]_vars

\* the positions of the messages events that pass the filter of line 347
MessagesFiltered(elements) ==
  {i \in 1..Len(elements) :
     /\ elements[i].resourceName = "messages"
     /\ elements[i].capturedAt >= now - MessageDays * TicksPerDay}

\* the positions of the messages events captured within the last 30 days:
\* less than 30 days before now, and not after it
MessagesWithin30Days(elements) ==
  {i \in MessagesFiltered(elements) :
     /\ elements[i].capturedAt > now - MessageDays * TicksPerDay
     /\ elements[i].capturedAt <= now}

\* C11: in calculateMessagesSentReceived every messages event captured
\* within the last 30 days is counted exactly once, in the bucket of its
\* capture day (so that day has a bucket): as sent when its actor equals the
\* current-user id (the owner of the first element that has an owner),
\* otherwise as received; events of any other resourceName change no bucket.
C11_MessagesCounted ==
  Applied("messagesSentReceived") =>
    LET elements == ElementsOf(data["changelog"])
        series == analytics.value
        id == CurrentUserId(elements)
        OfDay(k, sent) ==
          Cardinality({i \in MessagesFiltered(elements) :
                         /\ LabelOfDay(DayOf(elements[i].capturedAt)) = series[k].date
                         /\ (elements[i].actor = id) = sent})
    IN /\ \A i \in MessagesWithin30Days(elements) :
            \E k \in 1..Len(series) :
              series[k].date = LabelOfDay(DayOf(elements[i].capturedAt))
       /\ \A k \in 1..Len(series) :
            /\ series[k].sent = OfDay(k, TRUE)
            /\ series[k].received = OfDay(k, FALSE)

\* the part of C11 the code keeps: each bucket counts the filtered messages
\* events of its day, by actor
C11_BucketsCountTheirDay ==
  Applied("messagesSentReceived") =>
    LET elements == ElementsOf(data["changelog"])
        series == analytics.value
        id == CurrentUserId(elements)
    IN \A k \in 1..Len(series) :
         series[k].sent + series[k].received =
           Cardinality({i \in MessagesFiltered(elements) :
                          DayOf(elements[i].capturedAt) = DayOf(now) - (MessageDays - k)})

----------------------------------------------------------------------------
(* The dashboard in the browser: useDashboardData and Dashboard *)

\* the distinct lastUpdated stamps a dashboard response may carry
MaxUpdated == 3

\* retry: 2
Retry == 2

e_Token == "DMA token is required for dashboard data"
e_Api == "Dashboard API error"
e_Invalid == "Invalid dashboard data structure received"
e_Network == "Failed to fetch"

\* what fetch('/.netlify/functions/dashboard-data') may resolve with: a
\* status and a JSON body of which each top-level section is present or not
DashboardResponses ==
  {[kind |-> "rejected"]}
  \cup {[kind |-> "response", ok |-> FALSE, status |-> st] : st \in {401, 500}}
  \cup {[kind |-> "response", ok |-> TRUE, status |-> 200,
         body |-> [kind |-> "body", profileEvaluation |-> pe, summaryKPIs |-> kp,
                   miniTrends |-> mt, lastUpdated |-> lu]] :
          pe \in BOOLEAN, kp \in BOOLEAN, mt \in BOOLEAN, lu \in 1..MaxUpdated}

\* the queryFn of useDashboardData: the value it returns or the error it
\* throws
queryFn(dmaToken, resp) ==
  IF ~dmaToken THEN [threw |-> TRUE, error |-> <<e_Token, 0>>]
  ELSE IF resp.kind = "rejected" THEN [threw |-> TRUE, error |-> <<e_Network, 0>>]
  ELSE IF ~resp.ok THEN [threw |-> TRUE, error |-> <<e_Api, resp.status>>]
  ELSE IF \/ ~resp.body.profileEvaluation
          \/ ~resp.body.summaryKPIs
          \/ ~resp.body.miniTrends
    THEN [threw |-> TRUE, error |-> <<e_Invalid, 0>>]
  ELSE [threw |-> FALSE, data |-> resp.body]

NoError == <<"", 0>>

\* the result of useQuery before the first fetch settles; the query is
\* enabled only with a token
QueryMounted(dmaToken) ==
  [kind |-> "query", dmaToken |-> dmaToken,
   status |-> "loading",
   fetchStatus |-> IF dmaToken THEN "fetching" ELSE "idle",
   data |-> Null, error |-> NoError, failureCount |-> 0,
   isRefetching |-> FALSE, debugMode |-> FALSE]

isLoading(q) == q.status = "loading"

\* the view Dashboard returns for a result of useDashboardData
Dashboard(q) ==
  IF ~q.dmaToken THEN "limited"
  ELSE IF isLoading(q) \/ q.data = Null THEN "loading"
  ELSE IF q.error # NoError THEN "error"
  ELSE "dashboard"

\* the handler side stays as constructed while the browser runs
HandlerIdle ==
  /\ pc = "idle"
  /\ event = [httpMethod |-> "", authorization |-> Undefined, timeRange |-> Undefined]
  /\ now = Today * TicksPerDay
  /\ tick = 0
  /\ fetch = [r \in ResourceSet |-> "idle"]
  /\ fetchCount = [r \in ResourceSet |-> 0]
  /\ data = [r \in ResourceSet |-> Null]
  /\ analytics = Null
  /\ response = NoResponse

Render(q) ==
  /\ query' = q
  /\ view' = Dashboard(q)
  /\ UNCHANGED <<pc, event, now, tick, fetch, fetchCount, data, analytics, response>>

InitDashboard ==
  /\ HandlerIdle
  /\ \E dmaToken \in BOOLEAN : query = QueryMounted(dmaToken)
  /\ view = Dashboard(query)

\* the queryFn returns: the query succeeds
QueryFnReturns(resp) ==
  /\ query.fetchStatus = "fetching"
  /\ ~queryFn(query.dmaToken, resp).threw
  /\ Render([query EXCEPT !.status = "success",
                          !.fetchStatus = "idle",
                          !.data = queryFn(query.dmaToken, resp).data,
                          !.error = NoError,
                          !.failureCount = 0,
                          !.isRefetching = FALSE])

\* the queryFn throws and the query is tried again (retry: 2)
QueryFnRetried(resp) ==
  /\ query.fetchStatus = "fetching"
  /\ queryFn(query.dmaToken, resp).threw
  /\ query.failureCount < Retry
  /\ Render([query EXCEPT !.failureCount = @ + 1])

\* the queryFn throws for the last time: the query has failed; it keeps the
\* data of an earlier success
QueryFnFails(resp) ==
  /\ query.fetchStatus = "fetching"
  /\ queryFn(query.dmaToken, resp).threw
  /\ query.failureCount >= Retry
  /\ Render([query EXCEPT !.status = "error",
                          !.fetchStatus = "idle",
                          !.error = queryFn(query.dmaToken, resp).error,
                          !.failureCount = @ + 1,
                          !.isRefetching = FALSE])

\* handleRefetch, from the Try Again button of the error view or the
\* Refresh button of the dashboard view; a query without data goes back to
\* loading and drops its error
HandleRefetch ==
  /\ view \in {"error", "dashboard"}
  /\ ~query.isRefetching
  /\ query.fetchStatus = "idle"
  /\ Render([query EXCEPT !.fetchStatus = "fetching",
                          !.failureCount = 0,
                          !.isRefetching = TRUE,
                          !.status = IF query.data = Null THEN "loading" ELSE @,
                          !.error = IF query.data = Null THEN NoError ELSE @])

\* setDebugMode(!debugMode), from the buttons of the same two views
ToggleDebug ==
  /\ view \in {"error", "dashboard"}
  /\ Render([query EXCEPT !.debugMode = ~@])

NextDashboard ==
  \/ \E resp \in DashboardResponses : QueryFnReturns(resp)
  \/ \E resp \in DashboardResponses : QueryFnRetried(resp)
  \/ \E resp \in DashboardResponses : QueryFnFails(resp)
  \/ HandleRefetch
  \/ ToggleDebug

SpecDashboard == InitDashboard /\ [][NextDashboard]_vars

\* the query has failed because a response lacked one of the three sections
FailedOnStructure ==
  /\ query.kind = "query"
  /\ query.status = "error"
  /\ query.fetchStatus = "idle"
  /\ query.error[1] = e_Invalid

\* C12: when the dashboard response lacks any of profileEvaluation,
\* summaryKPIs or miniTrends, useDashboardData throws (the query never holds
\* such a body as its data) and, once the query has failed, Dashboard
\* renders its error view and not the loading view.
C12_ErrorVisible ==
  query.kind = "query" =>
    /\ query.data # Null =>
         /\ query.data.profileEvaluation
         /\ query.data.summaryKPIs
         /\ query.data.miniTrends
    /\ FailedOnStructure => view = "error"

\* the part of C12 that holds: a body that lacks a section never becomes the
\* data of the query, and a failure after an earlier success is shown
C12_ThrowsOnMissingSection ==
  query.kind = "query" =>
    /\ query.data # Null =>
         /\ query.data.profileEvaluation
         /\ query.data.summaryKPIs
         /\ query.data.miniTrends
    /\ FailedOnStructure /\ query.data # Null => view = "error"

\* a first load that failed leaves the loading view on the screen for good
C12_StuckOnLoading ==
  [][(query.kind = "query" /\ query.status = "error" /\ query.data = Null)
       => (view = "loading" /\ view' = "loading")]_vars

----------------------------------------------------------------------------
(* calculateEngagementPerPost under a reordering of the changelog *)

\* the orders in which a list of n elements can be arranged
Orders(n) ==
  {f \in [1..n -> 1..n] : \A i, j \in 1..n : f[i] = f[j] => i = j}

Permuted(s, f) == [i \in 1..Len(s) |-> s[f[i]]]

\* no post identifier has two creation events
CreatedAtMostOnce ==
  \A i, j \in CreatedPosts :
    ElementsOf(data["changelog"])[i].resourceId = ElementsOf(data["changelog"])[j].resourceId
      => i = j

\* postId, likes, comments and shares of the summaries of a result
Counters(result) ==
  {[postId |-> result[k].postId, likes |-> result[k].likes,
    comments |-> result[k].comments, shares |-> result[k].shares] :
     k \in 1..Len(result)}

\* C13: the per-post likes, comments and shares of calculateEngagementPerPost
\* are the same for every permutation of the changelog elements, provided
\* post identifiers are created at most once; an engagement event listed
\* before the creation event of its post is still counted.
C13_OrderIndependent ==
  Applied("engagementPerPost") /\ CreatedAtMostOnce =>
    LET elements == ElementsOf(data["changelog"])
    IN \A f \in Orders(Len(elements)) :
         Counters(calculateEngagementPerPost(Json(Permuted(elements, f))))
           = Counters(analytics.value)

\* a like listed before the creation event of the post it references, and
\* counted
C13_Witness ==
  /\ Applied("engagementPerPost")
  /\ CreatedAtMostOnce
  /\ Len(ElementsOf(data["changelog"])) >= 2
  /\ ElementsOf(data["changelog"])[1].resourceName = "socialActions/likes"
  /\ ElementsOf(data["changelog"])[1].method = "CREATE"
  /\ ElementsOf(data["changelog"])[1].object = s_p1
  /\ IsCreate(ElementsOf(data["changelog"])[2], "ugcPosts")
  /\ ElementsOf(data["changelog"])[2].resourceId = s_p1
  /\ \E k \in 1..Len(analytics.value) :
       analytics.value[k].postId = s_p1 /\ analytics.value[k].likes >= 1

----------------------------------------------------------------------------
(* The timeRange query value *)

\* an authorized request has been answered
AnsweredAuthorized ==
  pc = "done" /\ event.httpMethod # "OPTIONS" /\ ~NoAuthorization

\* the response carries the analytics of a range of the given days, as the
\* selector sel gives them, and echoes the value echo
AnswersRange(sel, days, echo) ==
  /\ response.body.timeRange = echo
  /\ DenseDays(response.body.postsEngagementsTrend, days)
  /\ response.body.postsEngagementsTrend =
       calculatePostsEngagementsTrend(data["changelog"], sel, now)
  /\ response.body.connectionsGrowth =
       calculateConnectionsGrowth(data["CONNECTIONS"], sel, now, now + tick)

\* C14: a timeRange query value other than "7d" or "30d" is never rejected:
\* the request is answered 200 (500 only when an aggregator raises on a
\* malformed body), the trend and growth bucketers treat the value as 90
\* days, and the response echoes the supplied value unchanged; an absent
\* timeRange is treated as "30d".
C14_TimeRangeFallback ==
  AnsweredAuthorized =>
    /\ response.statusCode \in {200, 500}
    /\ BodiesWellFormed => response.statusCode = 200
    /\ response.statusCode = 200 /\ event.timeRange \notin {Undefined, "7d", "30d"} =>
         AnswersRange("90d", 90, event.timeRange)
    /\ response.statusCode = 200 /\ event.timeRange = Undefined =>
         AnswersRange("30d", 30, "30d")

\* a request with timeRange=1y answered 200 with a trend of 90 buckets that
\* counts the post of today, and 1y echoed
C14_Witness ==
  /\ AnsweredAuthorized
  /\ response.statusCode = 200
  /\ event.timeRange = "1y"
  /\ response.body.timeRange = "1y"
  /\ Len(response.body.postsEngagementsTrend) = 90
  /\ response.body.postsEngagementsTrend[90].posts = 1
  /\ data["CONNECTIONS"] # Null

----------------------------------------------------------------------------
(* The sparse output of calculatePostTypesBreakdown *)

\* C15: for every changelog the list returned by calculatePostTypesBreakdown
\* has no entry named "Article" and no entry whose value is 0: no branch of
\* the classification increments the Article counter, and categories that
\* count nothing are filtered out.
C15_NoArticleNoZero ==
  Applied("postTypesBreakdown") =>
    \A k \in 1..Len(analytics.value) :
      /\ analytics.value[k].name # "Article"
      /\ analytics.value[k].value > 0

\* a changelog whose two posts carry media of type ARTICLE: one entry,
\* External Link with value 2
C15_Witness ==
  /\ Applied("postTypesBreakdown")
  /\ Cardinality(CreatedPosts) = 2
  /\ \A i \in CreatedPosts : ElementsOf(data["changelog"])[i].mediaTypes = <<s_ARTICLE>>
  /\ analytics.value = << [name |-> "External Link", value |-> 2] >>

====
